---- MODULE Spec2Model ----
(***************************************************************************)
(* helix-move: bulk rename/delete of a directory tree by editing a path    *)
(* listing.  The model covers                                              *)
(*   - helix-move-lib  (build_rules, normalize_rules,                      *)
(*                      add_missing_directories, create_edit_rules,        *)
(*                      EditRule::apply)                                   *)
(*   - helix-move-bin  (main, build_and_replace, replace_contents)         *)
(*   - helix-move-lsp  (Backend::did_change / apply_change)                *)
(*                                                                         *)
(* A path is a sequence of one-character strings, so that the string       *)
(* operations of the source (starts_with, split, trim_end_matches, rfind,  *)
(* join) are computed character by character.                              *)
(***************************************************************************)
EXTENDS Integers, Sequences, FiniteSets, TLC

(***************************************************************************)
(* Bounds of the model.                                                    *)
(***************************************************************************)
\* number of listing lines the user changes in one editor session
MaxEdits == 2
\* number of change notifications the editor sends to the language server
MaxEvents == 3

(***************************************************************************)
(* String primitives (Rust str methods used by the source).                *)
(***************************************************************************)
SLASH == "/"

\* str::ends_with('/')
ends_with_slash(s) == Len(s) > 0 /\ s[Len(s)] = SLASH

\* str::starts_with(prefix): raw character prefix
starts_with(s, prefix) ==
    /\ Len(prefix) <= Len(s)
    /\ \A k \in 1..Len(prefix) : s[k] = prefix[k]

\* str::trim_end_matches('/')
RECURSIVE trim_end_matches(_)
trim_end_matches(s) ==
    IF ends_with_slash(s) THEN trim_end_matches(SubSeq(s, 1, Len(s) - 1)) ELSE s

\* str::split(sep): the pieces between separators; "" splits into [""]
RECURSIVE split_on(_, _)
split_on(s, sep) ==
    IF \E k \in 1..Len(s) : s[k] = sep
    THEN LET k == CHOOSE k \in 1..Len(s) :
                     s[k] = sep /\ \A m \in 1..(k - 1) : s[m] # sep
         IN  <<SubSeq(s, 1, k - 1)>> \o split_on(SubSeq(s, k + 1, Len(s)), sep)
    ELSE <<s>>

\* [&str]::join(sep)
RECURSIVE join_with(_, _)
join_with(parts, sep) ==
    IF Len(parts) = 0 THEN <<>>
    ELSE IF Len(parts) = 1 THEN parts[1]
    ELSE parts[1] \o <<sep>> \o join_with(Tail(parts), sep)

\* the segments of a path: path.trim_end_matches('/').split('/').collect()
path_parts(path) == split_on(trim_end_matches(path), SLASH)

\* str::rfind('/') as a 1-based index, 0 when there is none
rfind_slash(s) ==
    IF \E k \in 1..Len(s) : s[k] = SLASH
    THEN CHOOSE k \in 1..Len(s) :
             s[k] = SLASH /\ \A m \in (k + 1)..Len(s) : s[m] # SLASH
    ELSE 0

\* the deletion sentinel "- "
SENTINEL == <<"-", " ">>

(***************************************************************************)
(* Rule, FullRule, EditRule.                                               *)
(***************************************************************************)
Unchanged(p) == [kind |-> "Unchanged", path |-> p]
Renamed(f, t) == [kind |-> "Renamed", from |-> f, to |-> t]
Deleted(p) == [kind |-> "Deleted", path |-> p]
Added(p) == [kind |-> "Added", path |-> p]

\* the original path a rule is about (Unchanged.path, Renamed.from, Deleted.path)
rule_src_path(rule) == IF rule.kind = "Renamed" THEN rule.from ELSE rule.path

\* rule_dest_path as a set: empty for Deleted
rule_dest_path(rule) ==
    CASE rule.kind = "Deleted" -> {}
      [] rule.kind = "Renamed" -> {rule.to}
      [] OTHER -> {rule.path}

(***************************************************************************)
(* Phase 1: build_rules.                                                   *)
(***************************************************************************)
\* build_rule with the two sides of a rename exchanged
build_rule_swapped(old, new) ==
    IF old = new THEN Unchanged(old)
    ELSE IF starts_with(new, SENTINEL) /\ ~starts_with(old, SENTINEL)
         THEN Deleted(old)
         ELSE Renamed(new, old)

build_rule(old, new) ==
    IF old = new THEN Unchanged(old)
    ELSE IF starts_with(new, SENTINEL) /\ ~starts_with(old, SENTINEL)
         THEN Deleted(old)
         ELSE Renamed(old, new)

\* defined for listings of equal length (the assert_eq! of the source)
build_rules(original_list, new_list) ==
    [i \in 1..Len(original_list) |-> build_rule(original_list[i], new_list[i])]

(***************************************************************************)
(* Rule application logic.                                                 *)
(***************************************************************************)
\* apply_deletes that cascades a delete to Unchanged rules only
apply_deletes_unchanged_only(rule, deletes) ==
    CASE rule.kind = "Deleted" -> Deleted(rule.path)
      [] rule.kind = "Unchanged" ->
            IF \E d \in deletes : starts_with(rule.path, d)
            THEN Deleted(rule.path) ELSE Unchanged(rule.path)
      [] rule.kind = "Renamed" -> Renamed(rule.from, rule.to)

apply_deletes(rule, deletes) ==
    CASE rule.kind = "Deleted" -> Deleted(rule.path)
      [] rule.kind = "Unchanged" ->
            IF \E d \in deletes : starts_with(rule.path, d)
            THEN Deleted(rule.path) ELSE Unchanged(rule.path)
      [] rule.kind = "Renamed" ->
            IF \E d \in deletes : starts_with(rule.from, d)
            THEN Deleted(rule.from) ELSE Renamed(rule.from, rule.to)

path_starts_with(path, base) ==
    LET pp == path_parts(path)
        bp == path_parts(base)
    IN  IF Len(bp) > Len(pp) THEN FALSE
        ELSE SubSeq(pp, 1, Len(bp)) = bp

\* rewrite_path that does not put the trailing slash back
rewrite_path_no_slash(path, from, to) ==
    IF ~path_starts_with(path, from) THEN path
    ELSE IF path = from THEN path
    ELSE LET pp == path_parts(path)
             fp == path_parts(from)
             tp == path_parts(to)
         IN  join_with(tp \o SubSeq(pp, Len(fp) + 1, Len(pp)), SLASH)

rewrite_path(path, from, to) ==
    IF ~path_starts_with(path, from) THEN path
    ELSE IF path = from THEN path
    ELSE LET pp == path_parts(path)
             fp == path_parts(from)
             tp == path_parts(to)
             new_parts == tp \o SubSeq(pp, Len(fp) + 1, Len(pp))
             result == join_with(new_parts, SLASH)
         IN  IF ends_with_slash(path) THEN result \o <<SLASH>> ELSE result

rewrite_rule(rule, from, to) ==
    CASE rule.kind = "Deleted" -> Deleted(rule.path)
      [] rule.kind = "Unchanged" ->
            LET new_path == rewrite_path(rule.path, from, to)
            IN  IF new_path = rule.path THEN Unchanged(rule.path)
                ELSE Renamed(rule.path, new_path)
      [] rule.kind = "Renamed" ->
            Renamed(rule.from, rewrite_path(rule.to, from, to))

\* path.matches('/').count()
depth(path) == Cardinality({k \in 1..Len(path) : path[k] = SLASH})

rule_depth(rule) == depth(rule_src_path(rule))

(***************************************************************************)
(* Phase 2: normalize_rules.                                               *)
(***************************************************************************)
\* indices.sort_by_key(rule_depth): a stable sort of 1..Len(rules)
RECURSIVE sort_by_depth(_, _)
sort_by_depth(rs, todo) ==
    IF todo = {} THEN <<>>
    ELSE LET i == CHOOSE i \in todo : \A j \in todo :
                      \/ rule_depth(rs[i]) < rule_depth(rs[j])
                      \/ rule_depth(rs[i]) = rule_depth(rs[j]) /\ i <= j
         IN  <<i>> \o sort_by_depth(rs, todo \ {i})

\* one iteration of "for &i in &indices" on the mutating list
rename_step(ns, i) ==
    LET cur == ns[i]
    IN  IF cur.kind = "Renamed"
        THEN [j \in 1..Len(ns) |->
                 IF j > i THEN rewrite_rule(ns[j], cur.from, cur.to)
                 ELSE ns[j]]
        ELSE ns

RECURSIVE rename_loop(_, _, _)
rename_loop(ns, indices, k) ==
    IF k > Len(indices) THEN ns
    ELSE rename_loop(rename_step(ns, indices[k]), indices, k + 1)

normalize_rules(rs) ==
    LET delete_paths == {rs[i].path : i \in {k \in 1..Len(rs) : rs[k].kind = "Deleted"}}
        stage1 == [i \in 1..Len(rs) |-> apply_deletes(rs[i], delete_paths)]
        indices == sort_by_depth(stage1, 1..Len(stage1))
    IN  rename_loop(stage1, indices, 1)

(***************************************************************************)
(* Phase 3: add_missing_directories.                                       *)
(***************************************************************************)
\* parent_dir as a set: empty for None
parent_dir(path) ==
    LET trimmed == trim_end_matches(path)
        pos == rfind_slash(trimmed)
    IN  IF pos = 0 THEN {}
        ELSE IF pos = 1 THEN {}
        ELSE LET parent == SubSeq(trimmed, 1, pos - 1) \o <<SLASH>>
             IN  IF parent = <<SLASH>> \/ parent = <<".", SLASH>> THEN {} ELSE {parent}

\* the chain current, parent, grandparent ... walked by the while-let loop,
\* collected bottom-up
RECURSIVE missing_upwards(_, _)
missing_upwards(current, existing) ==
    IF parent_dir(current) = {} THEN <<>>
    ELSE LET parent == CHOOSE p \in parent_dir(current) : TRUE
         IN  (IF parent \notin existing THEN <<parent>> ELSE <<>>)
                 \o missing_upwards(parent, existing)

reverse(s) == [k \in 1..Len(s) |-> s[Len(s) + 1 - k]]

\* get_missing_parents that looks at the nearest parent only
get_missing_parents_nearest(path, existing) ==
    LET up == missing_upwards(path, existing)
    IN  IF up = <<>> THEN <<>> ELSE <<up[1]>>

\* get_missing_parents that reports every parent, known or not
get_missing_parents_all(path, existing) == reverse(missing_upwards(path, {}))

get_missing_parents(path, existing) == reverse(missing_upwards(path, existing))

seq_to_set(s) == {s[k] : k \in 1..Len(s)}

\* the for-loop of add_missing_directories from rule k on
RECURSIVE add_missing_loop(_, _, _, _)
add_missing_loop(rs, k, acc, existing) ==
    IF k > Len(rs) THEN acc
    ELSE LET rule == rs[k]
         IN  CASE rule.kind = "Renamed" ->
                    LET missing == get_missing_parents(rule.to, existing)
                    IN  add_missing_loop(rs, k + 1,
                            acc \o [m \in 1..Len(missing) |-> Added(missing[m])]
                                       \o <<Renamed(rule.from, rule.to)>>,
                            existing \cup seq_to_set(missing) \cup {rule.to})
               [] rule.kind = "Unchanged" ->
                    add_missing_loop(rs, k + 1,
                        Append(acc, Unchanged(rule.path)),
                        existing \cup {rule.path})
               [] rule.kind = "Deleted" ->
                    add_missing_loop(rs, k + 1,
                        Append(acc, Deleted(rule.path)), existing)

add_missing_directories(rs) ==
    LET existing == UNION {rule_dest_path(rs[k]) : k \in 1..Len(rs)}
    IN  add_missing_loop(rs, 1, <<>>, existing)

filter_full_rules(rs) == SelectSeq(rs, LAMBDA r : r.kind # "Unchanged")

(***************************************************************************)
(* Phase 4: create_edit_rules.                                             *)
(***************************************************************************)
create_edit_rules(rs) == SelectSeq(rs, LAMBDA r : r.kind # "Deleted")

apply_rules_to_list(rs) ==
    [i \in 1..Len(rs) |->
        CASE rs[i].kind = "Unchanged" -> rs[i].path
          [] rs[i].kind = "Renamed" -> rs[i].to
          [] rs[i].kind = "Deleted" -> SENTINEL]

(***************************************************************************)
(* The file system seen by helix-move-bin.  A tree is a set of entries     *)
(* [path, data]: path is the listing form of the entry relative to the     *)
(* root of the tree (a directory ends with '/'), data is <<>> for a        *)
(* directory and, for a file, the path its content was created under.      *)
(***************************************************************************)
dir_entry(p) == [path |-> p, data |-> <<>>]
file_entry(p, d) == [path |-> p, data |-> d]

fs_paths(fs) == {e.path : e \in fs}

\* what std::fs finds at root.join(raw): "dir", "file" or "none"
node_kind(fs, raw) ==
    LET key == join_with(path_parts(raw), SLASH)
    IN  IF key = <<>> THEN "dir"
        ELSE IF (key \o <<SLASH>>) \in fs_paths(fs) THEN "dir"
        ELSE IF key \in fs_paths(fs) /\ ~ends_with_slash(raw) THEN "file"
        ELSE "none"

\* the directory that must exist for raw to be created
parent_exists(fs, raw) ==
    LET parts == path_parts(raw)
    IN  \/ Len(parts) <= 1
        \/ node_kind(fs, join_with(SubSeq(parts, 1, Len(parts) - 1), SLASH) \o <<SLASH>>) = "dir"

\* fs::create_dir(root.join(raw)): not recursive, fails on an existing path
fs_create_dir(fs, raw) ==
    IF node_kind(fs, trim_end_matches(raw)) # "none" \/ ~parent_exists(fs, raw)
    THEN [status |-> "err", fs |-> fs]
    ELSE [status |-> "ok",
          fs |-> fs \cup {dir_entry(join_with(path_parts(raw), SLASH) \o <<SLASH>>)}]

\* fs::copy(from, root.join(raw)): creates or truncates the destination file
fs_copy(data, fs, raw) ==
    LET key == join_with(path_parts(raw), SLASH)
    IN  IF node_kind(fs, trim_end_matches(raw)) = "dir" \/ ends_with_slash(raw)
           \/ ~parent_exists(fs, raw)
        THEN [status |-> "err", fs |-> fs]
        ELSE [status |-> "ok",
              fs |-> {e \in fs : e.path # key} \cup {file_entry(key, data)}]

\* the content of the file at raw
file_data(fs, raw) ==
    LET key == join_with(path_parts(raw), SLASH)
    IN  (CHOOSE e \in fs : e.path = key).data

PANIC(fs) == [status |-> "panic", fs |-> fs]

\* EditRule::apply(old_root, new_root): the outcome and the new staging tree
EditRule_apply(rule, old_fs, new_fs) ==
    CASE rule.kind = "Unchanged" ->
            IF node_kind(old_fs, rule.path) = "none" THEN PANIC(new_fs)
            ELSE IF (node_kind(old_fs, rule.path) = "dir") # ends_with_slash(rule.path)
                 THEN PANIC(new_fs)
            ELSE IF node_kind(old_fs, rule.path) = "dir"
                 THEN fs_create_dir(new_fs, rule.path)
                 ELSE fs_copy(file_data(old_fs, rule.path), new_fs, rule.path)
      [] rule.kind = "Renamed" ->
            IF node_kind(old_fs, rule.from) = "none" THEN PANIC(new_fs)
            ELSE IF ends_with_slash(rule.from) # ends_with_slash(rule.to)
                 THEN PANIC(new_fs)
            ELSE IF (node_kind(old_fs, rule.from) = "dir") # ends_with_slash(rule.from)
                 THEN PANIC(new_fs)
            ELSE IF node_kind(old_fs, rule.from) = "dir"
                 THEN fs_create_dir(new_fs, rule.to)
                 ELSE fs_copy(file_data(old_fs, rule.from), new_fs, rule.to)
      [] rule.kind = "Added" ->
            IF ~ends_with_slash(rule.path) THEN PANIC(new_fs)
            ELSE fs_create_dir(new_fs, rule.path)

(***************************************************************************)
(* collect_paths: every entry below the root, sorted as Rust sorts String  *)
(* (byte order).                                                           *)
(***************************************************************************)
char_code(c) ==
    CASE c = " " -> 32 [] c = "-" -> 45 [] c = "." -> 46 [] c = "/" -> 47
      [] c = "a" -> 97 [] c = "b" -> 98 [] c = "c" -> 99 [] c = "d" -> 100
      [] c = "x" -> 120 [] c = "y" -> 121

\* s < t in byte order
str_less(s, t) ==
    \E k \in 1..(Len(t)) :
        /\ \A m \in 1..(k - 1) : m <= Len(s) /\ s[m] = t[m]
        /\ \/ k = Len(s) + 1
           \/ k <= Len(s) /\ char_code(s[k]) < char_code(t[k])

RECURSIVE sorted_seq(_)
sorted_seq(S) ==
    IF S = {} THEN <<>>
    ELSE LET least == CHOOSE s \in S : \A t \in S \ {s} : str_less(s, t)
         IN  <<least>> \o sorted_seq(S \ {least})

collect_paths(fs) == sorted_seq(fs_paths(fs))

\* the first segment of an entry: the name read_dir reports for it
top_name(p) == path_parts(p)[1]
top_names(fs) == {top_name(p) : p \in fs_paths(fs)}
\* the entry called name together with everything below it
subtree(fs, name) == {e \in fs : top_name(e.path) = name}

(***************************************************************************)
(* State.                                                                  *)
(***************************************************************************)
VARIABLES
    \* helix-move-bin: main and build_and_replace
    pc,                 \* position of main
    root,               \* the tree under args.dir
    root_before,        \* the tree under args.dir when the command started
    staging,            \* the tree under the .helix-move-builder temp dir
    staging_exists,     \* whether that temp dir exists
    original_entries,   \* main: original_entries
    edited_entries,     \* main: edited_entries
    rules,              \* main: rules
    normalized,         \* main: normalized
    full_rules,         \* main: full_rules
    edit_rules,         \* main: edit_rules
    applied,            \* build_and_replace: rules of edit_rules applied so far
    \* helix-move-lsp: Backend
    applying_edit,      \* Backend.applying_edit
    original,           \* Backend.original
    current,            \* Backend.current
    tasks,              \* the did_change handlers, one per notification
    pushed              \* the texts sent with client.apply_edit, in order

bin_vars == <<pc, root, root_before, staging, staging_exists, original_entries,
              edited_entries, rules, normalized, full_rules, edit_rules, applied>>
lsp_vars == <<applying_edit, original, current, tasks, pushed>>
vars == <<bin_vars, lsp_vars>>

(***************************************************************************)
(* Inputs: the trees the command is run on and the lines a user types.     *)
(***************************************************************************)
P_a == <<"a">>
P_ab == <<"a", "b">>
P_a_ == <<"a", "/">>
P_ax == <<"a", "/", "x">>
P_ay == <<"a", "/", "y">>
P_ab_ == <<"a", "/", "b", "/">>
P_abx == <<"a", "/", "b", "/", "x">>
P_b_ == <<"b", "/">>
P_c_ == <<"c", "/">>
P_cx == <<"c", "/", "x">>
P_cd_ == <<"c", "/", "d", "/">>
P_cdx == <<"c", "/", "d", "/", "x">>

\* a tree holding the given paths, every file with its own content
tree_of(paths) ==
    {IF ends_with_slash(p) THEN dir_entry(p) ELSE file_entry(p, p) : p \in paths}

Trees == { tree_of({P_a_, P_ax}),
           tree_of({P_a_, P_ab_, P_abx}),
           tree_of({P_a_, P_ax, P_b_}),
           tree_of({P_a, P_ab}) }

\* what the user may put on a line
EditLines == {SENTINEL, P_a, P_b_, P_c_, P_ab_, P_cx, P_cd_, P_cdx, P_ay}

\* listing with the lines at the indices of f replaced by f's lines
edit_of(listing, f) ==
    [i \in 1..Len(listing) |-> IF i \in DOMAIN f THEN f[i] ELSE listing[i]]

\* the listings the editor can leave behind: up to MaxEdits lines changed,
\* or a line removed or added
EditedListings(listing) ==
    LET n == Len(listing)
        slots == {S \in SUBSET (1..n) : Cardinality(S) <= MaxEdits}
        same_length == UNION {{edit_of(listing, f) : f \in [S -> EditLines]} : S \in slots}
    IN  same_length
            \cup {SubSeq(listing, 1, n - 1)}
            \cup {Append(listing, P_c_)}

(***************************************************************************)
(* helix-move-bin.                                                         *)
(***************************************************************************)
NoTask == [pc |-> "none", content |-> <<>>, snapshot |-> <<>>, new_text |-> <<>>]

Init ==
    /\ pc = "start"
    /\ root \in Trees
    /\ root_before = root
    /\ staging = {}
    /\ staging_exists = FALSE
    /\ original_entries = <<>>
    /\ edited_entries = <<>>
    /\ rules = <<>>
    /\ normalized = <<>>
    /\ full_rules = <<>>
    /\ edit_rules = <<>>
    /\ applied = 0
    /\ applying_edit = FALSE
    /\ original = <<>>
    /\ current = <<>>
    /\ tasks = [t \in 1..MaxEvents |-> NoTask]
    /\ pushed = <<>>

\* main: collect_paths(&args.dir)
CollectPaths ==
    /\ pc = "start"
    /\ original_entries' = collect_paths(root)
    /\ pc' = "collected"
    /\ UNCHANGED <<root, root_before, staging, staging_exists, edited_entries,
                   rules, normalized, full_rules, edit_rules, applied, lsp_vars>>

\* main: the editor runs on the listing file, then the file is read back
RunEditor ==
    /\ pc = "collected"
    /\ \E edited \in EditedListings(original_entries) : edited_entries' = edited
    /\ pc' = "edited"
    /\ UNCHANGED <<root, root_before, staging, staging_exists, original_entries,
                   rules, normalized, full_rules, edit_rules, applied, lsp_vars>>

\* main, phase 1: build_rules panics on listings of different length
BuildRules ==
    /\ pc = "edited"
    /\ IF Len(original_entries) # Len(edited_entries)
       THEN pc' = "panicked" /\ UNCHANGED rules
       ELSE pc' = "built" /\ rules' = build_rules(original_entries, edited_entries)
    /\ UNCHANGED <<root, root_before, staging, staging_exists, original_entries,
                   edited_entries, normalized, full_rules, edit_rules, applied, lsp_vars>>

\* main, phase 2
NormalizeRules ==
    /\ pc = "built"
    /\ normalized' = normalize_rules(rules)
    /\ pc' = "normalized"
    /\ UNCHANGED <<root, root_before, staging, staging_exists, original_entries,
                   edited_entries, rules, full_rules, edit_rules, applied, lsp_vars>>

\* main, phase 3
AddMissingDirectories ==
    /\ pc = "normalized"
    /\ full_rules' = add_missing_directories(normalized)
    /\ pc' = "planned"
    /\ UNCHANGED <<root, root_before, staging, staging_exists, original_entries,
                   edited_entries, rules, normalized, edit_rules, applied, lsp_vars>>

\* main: print the filtered rules, or stop with "No Changes"
Review ==
    /\ pc = "planned"
    /\ pc' = IF filter_full_rules(full_rules) = <<>> THEN "no_changes" ELSE "confirm"
    /\ UNCHANGED <<root, root_before, staging, staging_exists, original_entries,
                   edited_entries, rules, normalized, full_rules, edit_rules, applied,
                   lsp_vars>>

\* main: confirm(), then phase 4 and the temp dir of build_and_replace
Confirm ==
    /\ pc = "confirm"
    /\ \E yes \in BOOLEAN :
          IF yes
          THEN /\ edit_rules' = create_edit_rules(full_rules)
               /\ staging_exists' = TRUE
               /\ pc' = "building"
          ELSE /\ pc' = "cancelled"
               /\ UNCHANGED <<edit_rules, staging_exists>>
    /\ UNCHANGED <<root, root_before, staging, original_entries, edited_entries,
                   rules, normalized, full_rules, applied, lsp_vars>>

\* build_and_replace that applies the rules to the target root itself
ApplyRule_in_place ==
    /\ pc = "building"
    /\ applied < Len(edit_rules)
    /\ \E io_ok \in BOOLEAN, unwind \in BOOLEAN :
          LET out == EditRule_apply(edit_rules[applied + 1], root, root)
          IN  CASE out.status = "panic" ->
                     /\ pc' = "panicked"
                     /\ IF unwind
                        THEN staging' = {} /\ staging_exists' = FALSE
                        ELSE UNCHANGED <<staging, staging_exists>>
                     /\ UNCHANGED <<applied, root>>
                [] out.status = "err" \/ (out.status = "ok" /\ ~io_ok) ->
                     /\ pc' = "failed"
                     /\ staging' = {} /\ staging_exists' = FALSE
                     /\ UNCHANGED <<applied, root>>
                [] OTHER ->
                     /\ root' = out.fs
                     /\ applied' = applied + 1
                     /\ UNCHANGED <<pc, staging, staging_exists>>
    /\ UNCHANGED <<root_before, original_entries, edited_entries, rules,
                   normalized, full_rules, edit_rules, lsp_vars>>

\* build_and_replace: rule.apply(&root, temp_dir.path())? for the next rule;
\* io_ok = FALSE is a failure of the file system call (disk full, ...).
\* On an error temp_dir is dropped, which removes the staging directory; on
\* a panic it is removed when the build unwinds and left behind when the
\* build aborts.
ApplyRule ==
    /\ pc = "building"
    /\ applied < Len(edit_rules)
    /\ \E io_ok \in BOOLEAN, unwind \in BOOLEAN :
          LET out == EditRule_apply(edit_rules[applied + 1], root, staging)
          IN  CASE out.status = "panic" ->
                     /\ pc' = "panicked"
                     /\ IF unwind
                        THEN staging' = {} /\ staging_exists' = FALSE
                        ELSE UNCHANGED <<staging, staging_exists>>
                     /\ UNCHANGED applied
                [] out.status = "err" \/ (out.status = "ok" /\ ~io_ok) ->
                     /\ pc' = "failed"
                     /\ staging' = {} /\ staging_exists' = FALSE
                     /\ UNCHANGED applied
                [] OTHER ->
                     /\ staging' = out.fs
                     /\ applied' = applied + 1
                     /\ UNCHANGED <<pc, staging_exists>>
    /\ UNCHANGED <<root, root_before, original_entries, edited_entries, rules,
                   normalized, full_rules, edit_rules, lsp_vars>>

\* replace_contents without its first loop: dst is not emptied
StartReplace_no_clear ==
    /\ pc = "building"
    /\ applied = Len(edit_rules)
    /\ pc' = "moving"
    /\ UNCHANGED <<root, root_before, staging, staging_exists, original_entries,
                   edited_entries, rules, normalized, full_rules, edit_rules, applied,
                   lsp_vars>>

\* build_and_replace: every rule applied, temp_dir.keep(), replace_contents starts
StartReplace ==
    /\ pc = "building"
    /\ applied = Len(edit_rules)
    /\ pc' = IF root = {} THEN "moving" ELSE "removing"
    /\ UNCHANGED <<root, root_before, staging, staging_exists, original_entries,
                   edited_entries, rules, normalized, full_rules, edit_rules, applied,
                   lsp_vars>>

\* replace_contents, first loop: remove one entry of dst with all below it
RemoveEntry ==
    /\ pc = "removing"
    /\ \E name \in top_names(root), io_ok \in BOOLEAN :
          IF io_ok
          THEN /\ root' = root \ subtree(root, name)
               /\ pc' = IF root' = {} THEN "moving" ELSE "removing"
          ELSE /\ pc' = "swap_failed"
               /\ UNCHANGED root
    /\ UNCHANGED <<root_before, staging, staging_exists, original_entries,
                   edited_entries, rules, normalized, full_rules, edit_rules, applied,
                   lsp_vars>>

\* replace_contents, second loop: rename one entry of src into dst
MoveEntry ==
    /\ pc = "moving"
    /\ \E name \in top_names(staging), io_ok \in BOOLEAN :
          IF io_ok
          THEN /\ root' = root \cup subtree(staging, name)
               /\ staging' = staging \ subtree(staging, name)
               /\ UNCHANGED pc
          ELSE /\ pc' = "swap_failed"
               /\ UNCHANGED <<root, staging>>
    /\ UNCHANGED <<root_before, staging_exists, original_entries, edited_entries,
                   rules, normalized, full_rules, edit_rules, applied, lsp_vars>>

\* replace_contents: fs::remove_dir(src), then build_and_replace returns Ok
RemoveStaging ==
    /\ pc = "moving"
    /\ staging = {}
    /\ staging_exists' = FALSE
    /\ pc' = "done"
    /\ UNCHANGED <<root, root_before, staging, original_entries, edited_entries,
                   rules, normalized, full_rules, edit_rules, applied, lsp_vars>>

Next ==
    \/ CollectPaths
    \/ RunEditor
    \/ BuildRules
    \/ NormalizeRules
    \/ AddMissingDirectories
    \/ Review
    \/ Confirm
    \/ ApplyRule
    \/ StartReplace
    \/ RemoveEntry
    \/ MoveEntry
    \/ RemoveStaging

Spec == Init /\ [][Next]_vars

(***************************************************************************)
(* helix-move-lsp.  A document text is a sequence of characters in which   *)
(* NL separates the lines.                                                 *)
(***************************************************************************)
NL == "\n"

\* l without one trailing "\r"
strip_cr(l) == IF Len(l) > 0 /\ l[Len(l)] = "\r" THEN SubSeq(l, 1, Len(l) - 1) ELSE l

\* str::lines(): the text between line ends ("\n" or "\r\n"); a final line
\* end adds no line, and a last line without line end keeps a trailing "\r"
lines(text) ==
    LET pieces == split_on(text, NL)
        kept == IF pieces[Len(pieces)] = <<>>
                THEN SubSeq(pieces, 1, Len(pieces) - 1) ELSE pieces
    IN  [k \in 1..Len(kept) |-> IF k < Len(pieces) THEN strip_cr(kept[k]) ELSE kept[k]]

\* list.join("\n")
join_lines(list) == join_with(list, NL)

\* what the user may put on a line of the open document
LspEditLines == {SENTINEL, P_c_, P_ab_}

\* the texts a change notification may carry: the tracked list with at most
\* one line changed, with a final line end, or with a line more
EventTexts(list) ==
    {join_lines(list), join_lines(list) \o <<NL>>, join_lines(Append(list, P_c_))}
        \cup {join_lines([list EXCEPT ![i] = l]) : i \in 1..Len(list), l \in LspEditLines}

\* params.content_changes: no change at all, or one full-text change
EventChanges(list) == {<<>>} \cup {<<text>> : text \in EventTexts(list)}

\* the handler is between entering apply_change and clearing the flag
InCycle(t) == tasks[t].pc \in {"apply_change", "write", "update_content", "await_reply"}

\* Backend::initialize with the options helix-move-bin wrote to languages.toml
Initialize ==
    /\ original = <<>>
    /\ \A t \in DOMAIN tasks : tasks[t].pc = "none"
    /\ original' = collect_paths(root)
    /\ current' = collect_paths(root)
    /\ UNCHANGED <<applying_edit, tasks, pushed, bin_vars>>

\* did_change without the compare_exchange: every notification enters
DidChange_no_guard(t, changes) ==
    /\ original # <<>>
    /\ tasks[t].pc = "none"
    /\ IF t = 1 THEN TRUE ELSE tasks[t - 1].pc # "none"
    /\ applying_edit' = TRUE
    /\ tasks' = IF changes = <<>>
                THEN [tasks EXCEPT ![t].pc = "returned"]
                ELSE [tasks EXCEPT ![t].pc = "apply_change", ![t].content = changes[1]]
    /\ UNCHANGED <<original, current, pushed, bin_vars>>

\* did_change up to the first await: the compare_exchange on applying_edit
\* and the match on params.content_changes.first()
DidChange(t, changes) ==
    /\ original # <<>>
    /\ tasks[t].pc = "none"
    /\ IF t = 1 THEN TRUE ELSE tasks[t - 1].pc # "none"
    /\ IF applying_edit
       THEN /\ tasks' = [tasks EXCEPT ![t].pc = "dropped"]
            /\ UNCHANGED applying_edit
       ELSE /\ applying_edit' = TRUE
            /\ tasks' = IF changes = <<>>
                        THEN [tasks EXCEPT ![t].pc = "returned"]
                        ELSE [tasks EXCEPT ![t].pc = "apply_change",
                                           ![t].content = changes[1]]
    /\ UNCHANGED <<original, current, pushed, bin_vars>>

\* apply_change: clone current under the read lock, split the text, compare
\* the lengths; on a mismatch apply_change returns and did_change clears the flag
ReadCurrent(t) ==
    /\ tasks[t].pc = "apply_change"
    /\ IF Len(current) # Len(lines(tasks[t].content))
       THEN /\ tasks' = [tasks EXCEPT ![t].pc = "returned"]
            /\ applying_edit' = FALSE
       ELSE /\ tasks' = [tasks EXCEPT ![t].pc = "write", ![t].snapshot = current]
            /\ UNCHANGED applying_edit
    /\ UNCHANGED <<original, current, pushed, bin_vars>>

\* apply_change that compares the new list with the edited lines instead
\* of the new text with the text of the notification
WriteCurrent_compare_lists(t) ==
    /\ tasks[t].pc = "write"
    /\ LET edited == lines(tasks[t].content)
           new_list == apply_rules_to_list(
                           normalize_rules(build_rules(tasks[t].snapshot, edited)))
       IN  /\ current' = new_list
           /\ IF new_list = edited
              THEN /\ tasks' = [tasks EXCEPT ![t].pc = "returned"]
                   /\ applying_edit' = FALSE
              ELSE /\ tasks' = [tasks EXCEPT ![t].pc = "update_content"]
                   /\ UNCHANGED applying_edit
    /\ UNCHANGED <<original, pushed, bin_vars>>

\* apply_change: phases 1 and 2, apply_rules_to_list, the write of current,
\* and the comparison of the new text with the text of the notification
WriteCurrent(t) ==
    /\ tasks[t].pc = "write"
    /\ LET edited == lines(tasks[t].content)
           new_list == apply_rules_to_list(
                           normalize_rules(build_rules(tasks[t].snapshot, edited)))
           new_text == join_lines(new_list)
       IN  /\ current' = new_list
           /\ IF new_text = tasks[t].content
              THEN /\ tasks' = [tasks EXCEPT ![t].pc = "returned"]
                   /\ applying_edit' = FALSE
              ELSE /\ tasks' = [tasks EXCEPT ![t].pc = "update_content"]
                   /\ UNCHANGED applying_edit
    /\ UNCHANGED <<original, pushed, bin_vars>>

\* update_content: join current under the read lock and send the
\* workspace/applyEdit request
UpdateContent(t) ==
    /\ tasks[t].pc = "update_content"
    /\ tasks' = [tasks EXCEPT ![t].pc = "await_reply", ![t].new_text = join_lines(current)]
    /\ pushed' = Append(pushed, join_lines(current))
    /\ UNCHANGED <<applying_edit, original, current, bin_vars>>

\* the reply to apply_edit arrives; did_change stores false and returns
ApplyEditReply(t) ==
    /\ tasks[t].pc = "await_reply"
    /\ tasks' = [tasks EXCEPT ![t].pc = "returned"]
    /\ applying_edit' = FALSE
    /\ UNCHANGED <<original, current, pushed, bin_vars>>

LspNext ==
    \/ Initialize
    \/ \E t \in 1..MaxEvents : \E changes \in EventChanges(current) : DidChange(t, changes)
    \/ \E t \in 1..MaxEvents : ReadCurrent(t)
    \/ \E t \in 1..MaxEvents : WriteCurrent(t)
    \/ \E t \in 1..MaxEvents : UpdateContent(t)
    \/ \E t \in 1..MaxEvents : ApplyEditReply(t)

LspSpec == Init /\ [][LspNext]_vars

(***************************************************************************)
(* Properties of the apply path (specification Spec).                      *)
(***************************************************************************)
seq_indices(q) == 1..Len(q)

\* the destinations of a rule sequence
dest_paths(q) == UNION {rule_dest_path(q[k]) : k \in seq_indices(q)}

\* the ancestor directories of a path, below the root, by its segments
ancestor_dirs(p) ==
    LET parts == split_on(trim_end_matches(p), SLASH)
    IN  {join_with(SubSeq(parts, 1, n), SLASH) \o <<SLASH>> : n \in 1..(Len(parts) - 1)}

\* s begins with the two characters "- "
has_sentinel(s) == Len(s) >= 2 /\ s[1] = "-" /\ s[2] = " "

\* C1: normalize_rules is idempotent: normalizing the normalized rules of
\* main again returns them element for element.
C1_NormalizeIdempotent ==
    normalized # <<>> =>
        /\ Len(normalize_rules(normalized)) = Len(normalized)
        /\ \A i \in seq_indices(normalized) :
               normalize_rules(normalized)[i] = normalized[i]

\* C2: once build_and_replace has returned Ok, the paths under the target
\* root are exactly the destinations of the EditRule sequence and the staging
\* directory is gone.
C2_ApplyExact ==
    pc = "done" =>
        /\ fs_paths(root) = dest_paths(edit_rules)
        /\ ~staging_exists
        /\ staging = {}

\* C2 witness: a successful run that created an Added directory and left an
\* original path out of the target.
C2_Witness ==
    /\ pc = "done"
    /\ \E k \in seq_indices(edit_rules) : edit_rules[k].kind = "Added"
    /\ fs_paths(root_before) \ fs_paths(root) # {}

Aborted == {"panicked", "failed", "no_changes", "cancelled"}

\* C3: the target root changes only in replace_contents, which runs only
\* after every EditRule was applied to the staging directory; a run that
\* ends by a panic, a failed action, no changes or a declined confirmation
\* leaves the target root as it was.
C3_TargetUntouched ==
    /\ [](pc \in Aborted \cup {"start", "collected", "edited", "built", "normalized",
                               "planned", "confirm", "building"}
              => root = root_before)
    /\ [][root' # root =>
             /\ pc \in {"removing", "moving"}
             /\ applied = Len(edit_rules)
             /\ dest_paths(edit_rules) \subseteq fs_paths(staging) \cup fs_paths(root)]_vars

\* C3 witness: an action failed after an earlier action had succeeded in
\* the staging directory.
C3_Witness == pc \in {"panicked", "failed"} /\ applied >= 1 /\ root = root_before

\* C4: when the rule of a directory entry p/ is Deleted, every rule whose
\* original path begins with p/ is Deleted with that original path after
\* normalize_rules.
C4_DeleteCascade ==
    normalized # <<>> =>
        \A i, j \in seq_indices(rules) :
            ( /\ rules[i].kind = "Deleted"
              /\ ends_with_slash(rules[i].path)
              /\ starts_with(rule_src_path(rules[j]), rules[i].path) )
            => normalized[j] = Deleted(rule_src_path(rules[j]))

\* C4 witness: a directory is deleted, an entry below it was renamed in the
\* edited listing, and another entry below it was left as it was.
C4_Witness ==
    /\ normalized # <<>>
    /\ \E i, j \in seq_indices(rules) :
          /\ rules[i].kind = "Deleted" /\ ends_with_slash(rules[i].path)
          /\ rules[j].kind = "Renamed"
          /\ starts_with(rules[j].from, rules[i].path)
          /\ normalized[j].kind = "Deleted"

\* C5: when d/ is renamed to e/ (the only renamed entry d/s lies under),
\* nothing is deleted and the later entry d/s is not edited, the normalized
\* rule of that entry is Renamed{d/s, e/s}.
C5_RenameCascade ==
    (normalized # <<>> /\ \A k \in seq_indices(rules) : rules[k].kind # "Deleted") =>
        \A i, j \in seq_indices(rules) :
            ( /\ i < j
              /\ rules[i].kind = "Renamed"
              /\ ends_with_slash(rules[i].from) /\ ends_with_slash(rules[i].to)
              /\ rules[j].kind = "Unchanged"
              /\ starts_with(rules[j].path, rules[i].from)
              /\ rules[j].path # rules[i].from
              /\ \A m \in seq_indices(rules) \ {i} :
                     rules[m].kind = "Renamed" => ~starts_with(rules[j].path, rules[m].from) )
            => normalized[j] =
                  Renamed(rules[j].path,
                          rules[i].to \o SubSeq(rules[j].path, Len(rules[i].from) + 1,
                                                Len(rules[j].path)))

\* C6: build_rules returns one rule per index, decided by original[i] and
\* edited[i] alone: Unchanged when equal, Deleted when the edited line has
\* the sentinel and the original has not, Renamed otherwise.
C6_PositionalDiff ==
    pc \in {"built", "normalized", "planned"} =>
        /\ Len(rules) = Len(original_entries)
        /\ Len(rules) = Len(edited_entries)
        /\ \A i \in seq_indices(original_entries) :
              rules[i] =
                 IF original_entries[i] = edited_entries[i]
                 THEN [kind |-> "Unchanged", path |-> original_entries[i]]
                 ELSE IF has_sentinel(edited_entries[i]) /\ ~has_sentinel(original_entries[i])
                 THEN [kind |-> "Deleted", path |-> original_entries[i]]
                 ELSE [kind |-> "Renamed", from |-> original_entries[i],
                       to |-> edited_entries[i]]

\* C6 witness: one listing gives an Unchanged, a Deleted and a Renamed rule.
C6_Witness ==
    /\ pc = "built"
    /\ \E i, j, k \in seq_indices(rules) :
          /\ rules[i].kind = "Unchanged"
          /\ rules[j].kind = "Deleted"
          /\ rules[k].kind = "Renamed"

\* C7: in full_rules and in edit_rules every ancestor directory of a rule's
\* destination is the destination of a rule at an earlier index.
parents_first(q) ==
    \A k \in seq_indices(q) : \A p \in rule_dest_path(q[k]) :
        \A a \in ancestor_dirs(p) :
            \E m \in 1..(k - 1) : a \in rule_dest_path(q[m])

C7_ParentBeforeChild ==
    full_rules # <<>> => parents_first(full_rules) /\ parents_first(edit_rules)

\* C8 as stated: every Renamed rule of rules, normalized and full_rules has
\* from and to both with or both without a trailing slash.
slash_kept(q) ==
    \A k \in seq_indices(q) :
        q[k].kind = "Renamed" => ends_with_slash(q[k].from) = ends_with_slash(q[k].to)

C8_RenameKeepsKind == slash_kept(rules) /\ slash_kept(normalized) /\ slash_kept(full_rules)

\* C8 amended: a Renamed rule at index i has a destination with the
\* trailing-slash-ness of the edited line i, so from and to agree whenever
\* the edit kept the slash of the original line; the Renamed rules of
\* full_rules are those of normalized; and no rule that EditRule::apply has
\* carried out changes an entry between file and directory.
C8_RenameKeepsKindOfEdit ==
    /\ \A i \in seq_indices(rules) :
          rules[i].kind = "Renamed" =>
              /\ rules[i].from = original_entries[i]
              /\ ends_with_slash(rules[i].to) = ends_with_slash(edited_entries[i])
    /\ \A i \in seq_indices(normalized) :
          normalized[i].kind = "Renamed" =>
              /\ normalized[i].from = original_entries[i]
              /\ ends_with_slash(normalized[i].to) = ends_with_slash(edited_entries[i])
    /\ \A k \in seq_indices(full_rules) :
          full_rules[k].kind = "Renamed" =>
              \E i \in seq_indices(normalized) : normalized[i] = full_rules[k]
    /\ \A k \in 1..applied :
          edit_rules[k].kind = "Renamed" =>
              ends_with_slash(edit_rules[k].from) = ends_with_slash(edit_rules[k].to)

\* C8 witness: a directory rename was propagated into the rule of an
\* unedited directory below it, and the rewritten rules have been applied.
C8_Witness ==
    /\ pc = "done"
    /\ \E i, j \in seq_indices(rules) :
          /\ rules[i].kind = "Renamed" /\ ends_with_slash(rules[i].from)
          /\ rules[j].kind = "Unchanged" /\ ends_with_slash(rules[j].path)
          /\ normalized[j].kind = "Renamed"
          /\ \E k \in seq_indices(edit_rules) : edit_rules[k] = normalized[j]

\* C9: add_missing_directories emits no Added path twice and none that is
\* a destination of a rule of its input.
C9_SynthesisMinimal ==
    full_rules # <<>> =>
        /\ \A k, m \in seq_indices(full_rules) :
              ( /\ full_rules[k].kind = "Added"
                /\ full_rules[m].kind = "Added"
                /\ full_rules[k].path = full_rules[m].path ) => k = m
        /\ \A k \in seq_indices(full_rules) :
              full_rules[k].kind = "Added" => full_rules[k].path \notin dest_paths(normalized)

\* C9 witness: two rules need the same missing directory, which is added
\* once, and a third directory is the destination of a later rule.
C9_Witness ==
    /\ full_rules # <<>>
    /\ \E k, m, n \in seq_indices(full_rules) :
          /\ full_rules[k].kind = "Added"
          /\ m # n
          /\ full_rules[m].kind = "Renamed" /\ full_rules[k].path \in ancestor_dirs(full_rules[m].to)
          /\ full_rules[n].kind = "Renamed" /\ full_rules[k].path \in ancestor_dirs(full_rules[n].to)

(***************************************************************************)
(* Properties of the language server (specification LspSpec).              *)
(***************************************************************************)
\* C10: at most one did_change handler is inside the normalization cycle,
\* and a notification that arrives while applying_edit is set is dropped:
\* it changes neither current nor the pushed replacements, keeps nothing of
\* its text, and its handler never acts afterwards.
C10_ReentrancyGuard ==
    /\ [](Cardinality({t \in DOMAIN tasks : InCycle(t)}) <= 1)
    /\ [][\A t \in DOMAIN tasks :
             /\ (tasks[t].pc = "none" /\ tasks'[t].pc # "none" /\ applying_edit) =>
                    /\ tasks'[t] = [NoTask EXCEPT !.pc = "dropped"]
                    /\ current' = current
                    /\ pushed' = pushed
                    /\ applying_edit' = applying_edit
             /\ tasks[t].pc = "dropped" => tasks'[t] = tasks[t]]_vars

\* C10 witness: a notification was dropped while another handler waits for
\* the reply to the replacement it pushed.
C10_Witness ==
    \E t, u \in DOMAIN tasks :
        /\ tasks[t].pc = "dropped"
        /\ tasks[u].pc = "await_reply"
        /\ pushed # <<>>

\* C11: a handler that set applying_edit clears it before it returns: the
\* flag is never set while no did_change handler is inside the cycle.
C11_FlagCleared ==
    applying_edit => \E t \in DOMAIN tasks : InCycle(t)

(***************************************************************************)
(* Further properties of the apply path (specification Spec).              *)
(***************************************************************************)
\* base is a prefix of path on whole segments
segment_prefix(base, path) ==
    LET bp == split_on(trim_end_matches(base), SLASH)
        pp == split_on(trim_end_matches(path), SLASH)
    IN  /\ Len(bp) <= Len(pp)
        /\ \A k \in 1..Len(bp) : pp[k] = bp[k]

\* C12: normalize_rules turns a rule that build_rules did not mark Deleted
\* into Deleted only if a deleted path is a prefix of its original path on
\* whole segments.
C12_SegmentAwareDelete ==
    normalized # <<>> =>
        \A j \in seq_indices(rules) :
            (rules[j].kind # "Deleted" /\ normalized[j].kind = "Deleted") =>
                \E i \in seq_indices(rules) :
                    /\ rules[i].kind = "Deleted"
                    /\ segment_prefix(rules[i].path, rule_src_path(rules[j]))

\* C13: when d/ is renamed and d/e/ below it is renamed too, and nothing is
\* deleted, a later unedited entry d/e/s is renamed to the final destination
\* of d/e/ followed by s.
C13_NestedRenames ==
    (normalized # <<>> /\ \A m \in seq_indices(rules) : rules[m].kind # "Deleted") =>
        \A i, j, k \in seq_indices(rules) :
            ( /\ j < k
              /\ rules[i].kind = "Renamed"
              /\ ends_with_slash(rules[i].from) /\ ends_with_slash(rules[i].to)
              /\ rules[j].kind = "Renamed"
              /\ ends_with_slash(rules[j].from) /\ ends_with_slash(rules[j].to)
              /\ starts_with(rules[j].from, rules[i].from)
              /\ rules[j].from # rules[i].from
              /\ rules[k].kind = "Unchanged"
              /\ starts_with(rules[k].path, rules[j].from)
              /\ rules[k].path # rules[j].from )
            => normalized[k] =
                  Renamed(rules[k].path,
                          normalized[j].to \o SubSeq(rules[k].path, Len(rules[j].from) + 1,
                                                     Len(rules[k].path)))

(***************************************************************************)
(* Further properties of the language server (specification LspSpec).      *)
(***************************************************************************)
\* the line shown for a normalized rule: its destination, or the sentinel
shown_line(rule) ==
    IF rule.kind = "Deleted" THEN <<"-", " ">>
    ELSE IF rule.kind = "Renamed" THEN rule.to ELSE rule.path

\* C14: for an edit with text T accepted while the flag was clear: if T
\* has another number of lines than current, current stays and nothing is
\* pushed; otherwise current becomes the list shown for
\* normalize_rules(build_rules(current, lines(T))), of the same length, and
\* that list is pushed as one replacement exactly when its text joined with
\* newlines differs from T.  original is never changed by an edit.
C14_LiveEditStep ==
    /\ [][\A t \in DOMAIN tasks :
             LET T == tasks[t].content
                 ns == normalize_rules(build_rules(current, lines(T)))
             IN  /\ (tasks[t].pc = "apply_change" /\ tasks'[t].pc # "apply_change") =>
                        /\ current' = current
                        /\ pushed' = pushed
                        /\ tasks'[t].pc =
                              IF Len(lines(T)) # Len(current) THEN "returned" ELSE "write"
                 /\ (tasks[t].pc = "write" /\ tasks'[t].pc # "write") =>
                        /\ Len(current') = Len(current)
                        /\ \A i \in 1..Len(current) : current'[i] = shown_line(ns[i])
                        /\ pushed' = pushed
                        /\ tasks'[t].pc =
                              IF join_with(current', NL) # T
                              THEN "update_content" ELSE "returned"
                 /\ (tasks[t].pc = "update_content" /\ tasks'[t].pc # "update_content") =>
                        /\ current' = current
                        /\ pushed' = Append(pushed, join_with(current, NL))
                        /\ tasks'[t].pc = "await_reply"
                 /\ tasks[t].pc \in {"returned", "dropped"} => tasks'[t] = tasks[t]]_vars
    /\ [][(original # <<>> /\ current' # current) =>
             \E t \in DOMAIN tasks : tasks[t].pc = "write" /\ tasks'[t].pc # "write"]_vars
    /\ [][pushed' # pushed =>
             \E t \in DOMAIN tasks : tasks[t].pc = "update_content"
                                        /\ tasks'[t].pc = "await_reply"]_vars
    /\ [][original # <<>> => original' = original]_vars

\* C14 witness: an edit deleted a directory, the cascade changed further
\* lines, and the list that differs from the text of the edit was pushed.
C14_Witness ==
    \E t \in DOMAIN tasks :
        /\ tasks[t].pc = "await_reply"
        /\ pushed # <<>>
        /\ pushed[Len(pushed)] = join_with(current, NL)
        /\ pushed[Len(pushed)] # tasks[t].content
        /\ Len(lines(tasks[t].content)) = Len(current)
        /\ Cardinality({i \in 1..Len(current) : current[i] = SENTINEL}) >= 2
        /\ original = collect_paths(root)

(***************************************************************************)
(* Further properties of the apply path (specification Spec).              *)
(***************************************************************************)
\* every ancestor directory of a destination of q is a destination of q
ancestors_closed(q) ==
    \A p \in dest_paths(q) : \A a \in ancestor_dirs(p) : a \in dest_paths(q)

\* C15 as stated: in full_rules every ancestor directory of the destination
\* of an Unchanged, Renamed or Added rule is the destination of some rule.
C15_AncestorClosure ==
    full_rules # <<>> => ancestors_closed(full_rules)

\* C15 amended: the same, for edited listings in which every changed line
\* keeps the trailing-slash-ness of its original line.
C15_AncestorClosureKindKept ==
    (full_rules # <<>> /\ slash_kept(rules)) => ancestors_closed(full_rules)

\* a rename into c/d/ whose two missing ancestors were both synthesized
C15_Witness ==
    /\ full_rules # <<>>
    /\ slash_kept(rules)
    /\ \E i, j, k \in seq_indices(full_rules) :
          /\ i < j /\ j < k
          /\ full_rules[i] = Added(P_c_)
          /\ full_rules[j] = Added(P_cd_)
          /\ full_rules[k].kind = "Renamed"
          /\ full_rules[k].to = P_cdx
          /\ ancestor_dirs(P_cdx) = {P_c_, P_cd_}

\* C16: no two rules of the EditRule sequence have the same destination, and
\* once build_and_replace has returned Ok every original file that was not
\* deleted has its content at its destination under the target root.
C16_NoDestinationTwice ==
    /\ \A i, j \in seq_indices(edit_rules) :
           i < j => rule_dest_path(edit_rules[i]) # rule_dest_path(edit_rules[j])
    /\ pc = "done" =>
           \A k \in seq_indices(normalized) :
               (normalized[k].kind # "Deleted"
                   /\ ~ends_with_slash(rule_src_path(normalized[k]))) =>
                   \E d \in rule_dest_path(normalized[k]) :
                       file_entry(join_with(path_parts(d), SLASH),
                                  file_data(root_before, rule_src_path(normalized[k])))
                           \in root

====
